---- MODULE Spec2Model ----
(***************************************************************************)
(* AffordableDash: identity and tenant-access layer.                       *)
(*                                                                         *)
(*   - the per-organization customer_uid allocator (next_customer_uid)     *)
(*     running inside concurrent create_customer transactions on a         *)
(*     READ COMMITTED store with row locks;                                *)
(*   - the JWT issuer / verifier (create_access_token, decode_token,       *)
(*     decode_token_get_user_id, get_current_user_id, require_web_user,    *)
(*     /auth/me);                                                          *)
(*   - the location access gate (require_location_access).                 *)
(*                                                                         *)
(* SpecAlloc explores the allocator, SpecGate the store and the gate,      *)
(* SpecToken the issuer and the verifier over time.                        *)
(***************************************************************************)
EXTENDS Integers, Sequences, FiniteSets, TLC

(***************************************************************************)
(* Bounds of the exploration.                                              *)
(***************************************************************************)
NumOrgs == 2

NumTxns == 3

MaxAllocs == 4

NumUsers == 2

NumLocs == 2

MaxTime == 4

MaxIssueTime == 1

MaxTtl == 2

MaxMemberships == 2

MaxRows == 2

MaxWrites == 2

Orgs == 1..NumOrgs

LocIds == 1..NumLocs

Txns == 1..NumTxns

UserIds == 1..NumUsers

(***************************************************************************)
(* Program constants.                                                      *)
(***************************************************************************)
UidWidth == 6

access_token_expire_minutes == 60

HTTP_200 == 200

HTTP_302 == 302

HTTP_400 == 400

HTTP_401 == 401

HTTP_403 == 403

HTTP_404 == 404

HTTP_500 == 500

VARIABLES
    \* the process: its environment and the signup request it is serving
    env_secret_key, \* SECRET_KEY in the environment: <<>> (unset) or <<value>>
    signup,         \* the signup in progress: [pc, user, org, loc]
    \* persisted state
    organizations,  \* organizations table: the ids of its rows
    users,          \* users table: id -> [is_superadmin, is_active]
    userIdSeq,      \* last value of the users.id sequence
    locations,      \* locations table: id -> organization_id
    memberships,    \* user_locations table: set of [user_id, location_id, role]
    counter,        \* customer_counters: organization_id -> next_num (0: no row)
    customers,      \* customers table: per organization, its committed rows in insertion order
    \* the open create_customer transactions
    txPc, txLoc, txOrg, txNum, txIns, txLock, txAlloc,
    \* history of the allocator
    allocs,         \* per organization, every number handed out, in assignment order
    \* the client, the clock and the last response
    now, cookie, issued, resp

procVars == <<env_secret_key, signup>>

dbVars == <<organizations, users, userIdSeq, locations, memberships>>

allocVars == <<counter, customers, txPc, txLoc, txOrg, txNum, txIns, txLock,
               txAlloc, allocs>>

clientVars == <<now, cookie, issued, resp>>

vars == <<procVars, dbVars, allocVars, clientVars>>

(***************************************************************************)
(* customer_uid formatting: f"CUS-{next_num:06d}".                         *)
(***************************************************************************)
RECURSIVE Digits(_)
Digits(n) == IF n < 10 THEN <<n>> ELSE Append(Digits(n \div 10), n % 10)

RECURSIVE ZeroPad(_, _)
ZeroPad(s, w) == IF Len(s) >= w THEN s ELSE ZeroPad(<<0>> \o s, w)

CustomerUid(n) == [prefix |-> "CUS", digits |-> ZeroPad(Digits(n), UidWidth)]

\* a customers row that was given no customer_uid
NoUid == [prefix |-> "", digits |-> <<>>]

\* Customer(customer_uid, organization_id, location_id, ..., is_archived=False)
\* with the number of its contact and address rows
CustomerRow(uid, o, l) ==
    [customer_uid |-> uid, organization_id |-> o, location_id |-> l,
     is_archived |-> FALSE, notes |-> 0, contacts |-> 0, addresses |-> 0]

RECURSIVE DigitsValue(_)
DigitsValue(s) ==
    IF Len(s) = 0 THEN 0
    ELSE 10 * DigitsValue(SubSeq(s, 1, Len(s) - 1)) + s[Len(s)]

(***************************************************************************)
(* The store: READ COMMITTED with row locks.  A counter row is locked by   *)
(* the transaction that inserted it, selected it FOR UPDATE or updated it, *)
(* until that transaction ends.                                            *)
(***************************************************************************)
RowLockedNever(o, t) == FALSE

\* a lock on the whole customer_counters table
RowLockedAnyOrg(o, t) == \E t2 \in Txns \ {t} : txLock[t2]

RowLocked(o, t) == \E t2 \in Txns \ {t} : txOrg[t2] = o /\ txLock[t2]

\* an insert that waits for no one
RowWriteInProgressNever(o, t) == FALSE

\* another transaction has an uncommitted insert or update of o's row
RowWriteInProgress(o, t) ==
    \E t2 \in Txns \ {t} :
        /\ txOrg[t2] = o
        /\ (txIns[t2] \/ txPc[t2] \in {"updated", "flushed", "bf_updated"})

\* the next_num a statement of t reads for organization o
VisibleNum(o, t) == IF txIns[t] THEN 1 ELSE counter[o]

AllocsOf(o) == 1..Len(allocs[o])

AbortedOf(o) == {i \in AllocsOf(o) : allocs[o][i].st = "aborted"}

CommittedOf(o) == {i \in AllocsOf(o) : allocs[o][i].st = "committed"}

RECURSIVE SumLen(_)
SumLen(S) == IF S = {} THEN 0
             ELSE LET o == CHOOSE x \in S : TRUE IN Len(allocs[o]) + SumLen(S \ {o})

\* the record of a number handed out to session t
Handed(t) ==
    [num |-> VisibleNum(txOrg[t], t), uid |-> CustomerUid(VisibleNum(txOrg[t], t)),
     st |-> "open", cpos |-> 0]

(***************************************************************************)
(* Tokens.  A JWT is its header algorithm, its claims and a signature; the *)
(* signature is the MAC of (algorithm, claims) under a key, modelled as    *)
(* the record of what was signed and with which key.  The cookie is under  *)
(* the client's control: it may also hold nothing or an unparsable string. *)
(***************************************************************************)
secret_key == "server-secret"

\* the value Settings.secret_key takes when SECRET_KEY is not in the environment
default_secret_key == "dev-secret-change-me"

jwt_algorithm == "HS256"

AttackerKey == "attacker-secret"

NoExtra == [location_id |-> 0, org_id |-> 0, role |-> ""]

NullPayload == [sub |-> <<>>, exp |-> 0, iat |-> 0, extra |-> NoExtra]

\* settings.secret_key: the environment's SECRET_KEY, else the default
settings_secret_key ==
    IF env_secret_key = <<>> THEN default_secret_key ELSE env_secret_key[1]

Sign(key, alg, payload) == [key |-> key, alg |-> alg, payload |-> payload]

NullSig == Sign("", "", NullPayload)

NoToken == [fmt |-> "none", alg |-> "", payload |-> NullPayload, sig |-> NullSig]

Garbage == [fmt |-> "garbage", alg |-> "", payload |-> NullPayload, sig |-> NullSig]

\* str(subject) of an integer subject
Str(n) == Digits(n)

IsDigits(s) == Len(s) > 0 /\ \A i \in 1..Len(s) : s[i] \in 0..9

\* jose.jwt.encode(payload, key, algorithm)
JwtEncode(payload, key, alg) ==
    [fmt |-> "jwt", alg |-> alg, payload |-> payload, sig |-> Sign(key, alg, payload)]

\* a decode that does not check the signature
JwtDecodeUnverified(token, key, algs, t) ==
    IF token.fmt # "jwt" THEN [ok |-> FALSE, err |-> "malformed", payload |-> NullPayload]
    ELSE IF token.alg \notin algs THEN [ok |-> FALSE, err |-> "algorithm", payload |-> NullPayload]
    ELSE IF token.payload.exp < t THEN [ok |-> FALSE, err |-> "expired", payload |-> NullPayload]
    ELSE [ok |-> TRUE, err |-> "", payload |-> token.payload]

\* a decode that verifies under whatever algorithm the header declares
JwtDecodeAnyAlgorithm(token, key, algs, t) ==
    IF token.fmt # "jwt" THEN [ok |-> FALSE, err |-> "malformed", payload |-> NullPayload]
    ELSE IF token.sig # Sign(key, token.alg, token.payload)
        THEN [ok |-> FALSE, err |-> "signature", payload |-> NullPayload]
    ELSE IF token.payload.exp < t THEN [ok |-> FALSE, err |-> "expired", payload |-> NullPayload]
    ELSE [ok |-> TRUE, err |-> "", payload |-> token.payload]

\* jose.jwt.decode(token, key, algorithms) at time t: the claims, or JWTError
JwtDecode(token, key, algs, t) ==
    IF token.fmt # "jwt" THEN [ok |-> FALSE, err |-> "malformed", payload |-> NullPayload]
    ELSE IF token.alg \notin algs THEN [ok |-> FALSE, err |-> "algorithm", payload |-> NullPayload]
    ELSE IF token.sig # Sign(key, token.alg, token.payload)
        THEN [ok |-> FALSE, err |-> "signature", payload |-> NullPayload]
    ELSE IF token.payload.exp < t THEN [ok |-> FALSE, err |-> "expired", payload |-> NullPayload]
    ELSE [ok |-> TRUE, err |-> "", payload |-> token.payload]

\* the salt of _session_serializer and the default max_age of
\* verify_session_token (7 days), in minutes
session_salt == "session-token"

session_expire_minutes == 60 * 24 * 7

\* create_session_token(data) at time t for data = {"user_id": subject}: the
\* serializer signs the data and the timestamp with the secret and the salt
create_session_token(subject, t) ==
    LET payload == [sub |-> Str(subject), exp |-> 0, iat |-> t, extra |-> NoExtra] IN
    [fmt |-> "session", alg |-> session_salt, payload |-> payload,
     sig |-> Sign(settings_secret_key, session_salt, payload)]

\* verify_session_token(token) at time t: the data, or ValueError
verify_session_token(token, t) ==
    IF token.fmt # "session" \/ token.sig # Sign(settings_secret_key, session_salt, token.payload)
    THEN [ok |-> FALSE, err |-> "signature", payload |-> NullPayload]
    ELSE IF t - token.payload.iat > session_expire_minutes
        THEN [ok |-> FALSE, err |-> "expired", payload |-> NullPayload]
    ELSE [ok |-> TRUE, err |-> "", payload |-> token.payload]

\* create_access_token(subject, expires_minutes, extra=...) at time t;
\* expires_minutes is <<>> (None) or <<m>>
create_access_token(subject, expires_minutes, extra, t) ==
    LET minutes == IF expires_minutes = <<>> \/ expires_minutes[1] = 0
                   THEN access_token_expire_minutes
                   ELSE expires_minutes[1]
        payload == [sub |-> Str(subject), exp |-> t + minutes, iat |-> t, extra |-> extra]
    IN  JwtEncode(payload, settings_secret_key, jwt_algorithm)

(***************************************************************************)
(* Responses: what the caller sees (status, detail) and, when the request  *)
(* got that far, the user and the location it was decided for.             *)
(***************************************************************************)
Response(status, detail, uid, loc) ==
    [status |-> status, detail |-> detail, user_id |-> uid, location_id |-> loc]

_unauthorized(detail) == Response(HTTP_401, detail, 0, 0)

_forbidden(detail) == Response(HTTP_403, detail, 0, 0)

_redirect_to_login == Response(HTTP_302, "/login", 0, 0)

Observable(r) == <<r.status, r.detail>>

\* decode_token_get_user_id(token) at time t
decode_token_get_user_id(token, t) ==
    LET d == JwtDecode(token, settings_secret_key, {jwt_algorithm}, t) IN
    IF settings_secret_key = ""
        THEN _unauthorized("Server auth not configured (missing secret_key).")
    ELSE IF ~d.ok THEN _unauthorized("Invalid or expired token")
    ELSE IF ~IsDigits(d.payload.sub) THEN _unauthorized("Token missing user id")
    ELSE Response(HTTP_200, "", DigitsValue(d.payload.sub), 0)

\* get_current_user_id(request) at time t, the request carrying cookie tk
get_current_user_id(tk, t) ==
    IF tk.fmt = "none" THEN _unauthorized("Not authenticated")
    ELSE decode_token_get_user_id(tk, t)

(***************************************************************************)
(* The location access gate and the user dependencies.                     *)
(***************************************************************************)
Roles == {"tech", "owner"}

HasMembership(u, l) == \E m \in memberships : m.user_id = u /\ m.location_id = l

MembershipsOf(u) == {m \in memberships : m.user_id = u}

\* a gate that allows a user holding any membership at all
require_location_access_AnyLocation(location_id, user_id) ==
    IF MembershipsOf(user_id) = {}
    THEN _forbidden("No access to this location")
    ELSE Response(HTTP_200, "", user_id, location_id)

\* require_location_access(location_id, db, user_id)
require_location_access(location_id, user_id) ==
    IF ~HasMembership(user_id, location_id)
    THEN _forbidden("No access to this location")
    ELSE Response(HTTP_200, "", user_id, location_id)

\* a gate that believes the location claim of a token that verifies
LocationAccessTrustsClaim(tk, l, t) ==
    LET a == get_current_user_id(tk, t) IN
    IF a.status # HTTP_200 THEN a
    ELSE IF tk.payload.extra.location_id = l THEN Response(HTTP_200, "", a.user_id, l)
    ELSE require_location_access(l, a.user_id)

\* an endpoint that depends on get_current_user_id and then calls
\* require_location_access (list_customers, search_customers, create_customer)
LocationAccess(tk, l, t) ==
    LET a == get_current_user_id(tk, t) IN
    IF a.status # HTTP_200 THEN a ELSE require_location_access(l, a.user_id)

\* require_user(db, user_id)
require_user(tk, t) ==
    LET a == get_current_user_id(tk, t) IN
    IF a.status # HTTP_200 THEN a
    ELSE IF a.user_id \notin DOMAIN users THEN _unauthorized("User not found")
    ELSE a

\* require_web_user(request, db)
require_web_user(tk, t) ==
    IF tk.fmt = "none" THEN _redirect_to_login
    ELSE LET a == decode_token_get_user_id(tk, t) IN
         IF a.status # HTTP_200 THEN _redirect_to_login
         ELSE IF a.user_id \notin DOMAIN users THEN _redirect_to_login
         ELSE a

\* GET /auth/me: decode_token raises ValueError, which nothing catches
me(tk, t) ==
    IF tk.fmt = "none"
    THEN Response(HTTP_400, "Provide token via ?token=, Bearer header, or cookie.", 0, 0)
    ELSE LET d == JwtDecode(tk, settings_secret_key, {jwt_algorithm}, t) IN
         IF ~d.ok THEN Response(HTTP_500, "Internal Server Error", 0, 0)
         ELSE IF ~IsDigits(d.payload.sub) THEN Response(HTTP_401, "Invalid token", 0, 0)
         ELSE IF DigitsValue(d.payload.sub) \notin DOMAIN users
              THEN Response(HTTP_404, "User not found", 0, 0)
         ELSE Response(HTTP_200, "", DigitsValue(d.payload.sub), 0)

\* GET /dashboard/summary: the membership check inline
dashboard_summary(tk, l, t) ==
    LET a == get_current_user_id(tk, t) IN
    IF a.status # HTTP_200 THEN a
    ELSE IF ~HasMembership(a.user_id, l)
         THEN Response(HTTP_200, "Not authorized for this location", a.user_id, 0)
    ELSE Response(HTTP_200, "", a.user_id, l)

(***************************************************************************)
(* Initial states.  The store holds one location per organization slot,    *)
(* and the client is logged in as user 1, owner of every location.         *)
(***************************************************************************)
OrgOfLoc(l) == ((l - 1) % NumOrgs) + 1

NoResponse == [op |-> "", status |-> 0, detail |-> "", user_id |-> 0, location_id |-> 0,
               asked |-> 0, who |-> 0, fault |-> "", target |-> 0]

\* why jwt verification refuses the cookie ("" when it does not)
VerifFault(tk, t) ==
    IF tk.fmt = "none" THEN "absent"
    ELSE JwtDecode(tk, settings_secret_key, {jwt_algorithm}, t).err

\* the response r to request op about location l, with what the server knew
Answer(op, r, l, tk, t) ==
    [op |-> op, status |-> r.status, detail |-> r.detail, user_id |-> r.user_id,
     location_id |-> r.location_id, asked |-> l,
     who |-> get_current_user_id(tk, t).user_id, fault |-> VerifFault(tk, t),
     target |-> 0]

\* the create_access_token call that produced the cookie, if it is untouched
NotIssued == [subject |-> 0, ttl |-> <<>>, at |-> 0 - 1]

NormalUser == [is_superadmin |-> FALSE, is_active |-> TRUE]

SuperAdmin == [is_superadmin |-> TRUE, is_active |-> TRUE]

OwnerClaims(l) == [location_id |-> l, org_id |-> OrgOfLoc(l), role |-> "owner"]

\* no signup is in progress
NoSignup == [pc |-> "idle", user |-> 0, org |-> 0, loc |-> 0]

\* the process runs with SECRET_KEY set, every organization slot holds a
\* row and no signup is in progress
InitProc ==
    /\ env_secret_key = <<secret_key>>
    /\ signup = NoSignup
    /\ organizations = Orgs

InitTxns ==
    /\ txPc = [t \in Txns |-> "idle"]
    /\ txLoc = [t \in Txns |-> 0]
    /\ txOrg = [t \in Txns |-> 0]
    /\ txNum = [t \in Txns |-> 0]
    /\ txIns = [t \in Txns |-> FALSE]
    /\ txLock = [t \in Txns |-> FALSE]
    /\ txAlloc = [t \in Txns |-> 0]
    /\ counter = [o \in Orgs |-> 0]
    /\ customers = [o \in Orgs |-> <<>>]
    /\ allocs = [o \in Orgs |-> <<>>]

InitAlloc ==
    /\ users = [u \in {1} |-> NormalUser]
    /\ userIdSeq = 1
    /\ locations = [l \in LocIds |-> OrgOfLoc(l)]
    /\ InitProc
    /\ memberships = {[user_id |-> 1, location_id |-> l, role |-> "owner"] : l \in LocIds}
    /\ InitTxns
    /\ now = 0
    /\ cookie = create_access_token(1, <<>>, OwnerClaims(1), 0)
    /\ issued = [subject |-> 1, ttl |-> <<>>, at |-> 0]
    /\ resp = NoResponse

(***************************************************************************)
(* POST /customers/ (create_customer), one action per statement sent to    *)
(* the store.  Transaction t is the request's session.                     *)
(***************************************************************************)
TxReset(t) ==
    /\ txPc' = [txPc EXCEPT ![t] = "idle"]
    /\ txLoc' = [txLoc EXCEPT ![t] = 0]
    /\ txOrg' = [txOrg EXCEPT ![t] = 0]
    /\ txNum' = [txNum EXCEPT ![t] = 0]
    /\ txIns' = [txIns EXCEPT ![t] = FALSE]
    /\ txLock' = [txLock EXCEPT ![t] = FALSE]
    /\ txAlloc' = [txAlloc EXCEPT ![t] = 0]

\* require_location_access, the Location lookup; the session begins (sessions
\* are interchangeable: the request takes the first free one)
BeginCreate(t, l) ==
    /\ txPc[t] = "idle"
    /\ \A t2 \in Txns : t2 < t => txPc[t2] # "idle"
    /\ SumLen(Orgs) + Cardinality({t2 \in Txns : txPc[t2] \in {"begun", "inserted"}}) < MaxAllocs
    /\ LocationAccess(cookie, l, now).status = HTTP_200
    /\ l \in DOMAIN locations
    /\ txPc' = [txPc EXCEPT ![t] = "begun"]
    /\ txLoc' = [txLoc EXCEPT ![t] = l]
    /\ txOrg' = [txOrg EXCEPT ![t] = locations[l]]
    /\ UNCHANGED <<procVars, dbVars, clientVars, counter, customers, txNum, txIns, txLock,
                   txAlloc, allocs>>

\* INSERT INTO customer_counters ... ON CONFLICT (organization_id) DO NOTHING
InsertCounter(t) ==
    /\ txPc[t] = "begun"
    /\ ~RowWriteInProgress(txOrg[t], t)
    /\ IF counter[txOrg[t]] = 0
       THEN /\ txIns' = [txIns EXCEPT ![t] = TRUE]
            /\ txLock' = [txLock EXCEPT ![t] = TRUE]
       ELSE UNCHANGED <<txIns, txLock>>
    /\ txPc' = [txPc EXCEPT ![t] = "inserted"]
    /\ UNCHANGED <<procVars, dbVars, clientVars, counter, customers, txLoc, txOrg, txNum,
                   txAlloc, allocs>>

\* a plain SELECT next_num: no row lock is waited for or taken
SelectNextNumNoLock(t) ==
    /\ txPc[t] = "inserted"
    /\ VisibleNum(txOrg[t], t) > 0
    /\ txNum' = [txNum EXCEPT ![t] = VisibleNum(txOrg[t], t)]
    /\ txAlloc' = [txAlloc EXCEPT ![t] = Len(allocs[txOrg[t]]) + 1]
    /\ allocs' = [allocs EXCEPT ![txOrg[t]] = Append(@, Handed(t))]
    /\ txPc' = [txPc EXCEPT ![t] = "selected"]
    /\ UNCHANGED <<procVars, dbVars, clientVars, counter, customers, txLoc, txOrg, txIns, txLock>>

\* SELECT next_num ... FOR UPDATE, .one(), uid = f"CUS-{next_num:06d}"
SelectNextNum(t) ==
    /\ txPc[t] = "inserted"
    /\ ~RowLocked(txOrg[t], t)
    /\ txLock' = [txLock EXCEPT ![t] = TRUE]
    /\ txNum' = [txNum EXCEPT ![t] = VisibleNum(txOrg[t], t)]
    /\ txAlloc' = [txAlloc EXCEPT ![t] = Len(allocs[txOrg[t]]) + 1]
    /\ allocs' = [allocs EXCEPT ![txOrg[t]] = Append(@, Handed(t))]
    /\ txPc' = [txPc EXCEPT ![t] = "selected"]
    /\ UNCHANGED <<procVars, dbVars, clientVars, counter, customers, txLoc, txOrg, txIns>>

\* the value written back: {"n": next_num + 1}
NextValueSame(n) == n

NextValuePrevious(n) == n - 1

\* a write-back that skips a number
NextValueSkip(n) == n + 2

NextValue(n) == n + 1

\* UPDATE customer_counters SET next_num = :n; return uid
UpdateCounter(t) ==
    /\ txPc[t] = "selected"
    /\ ~RowLocked(txOrg[t], t)
    /\ txLock' = [txLock EXCEPT ![t] = TRUE]
    /\ txPc' = [txPc EXCEPT ![t] = "updated"]
    /\ UNCHANGED <<procVars, dbVars, clientVars, counter, customers, txLoc, txOrg, txNum, txIns,
                   txAlloc, allocs>>

\* db.add(customer); db.flush() and the contact / address rows
AddCustomer(t) ==
    /\ txPc[t] = "updated"
    /\ txPc' = [txPc EXCEPT ![t] = "flushed"]
    /\ UNCHANGED <<procVars, dbVars, clientVars, counter, customers, txLoc, txOrg, txNum, txIns,
                   txLock, txAlloc, allocs>>

\* the session ends: the history records how
Ended(t, how) ==
    IF txAlloc[t] = 0 THEN allocs
    ELSE [allocs EXCEPT ![txOrg[t]][txAlloc[t]] =
              [@ EXCEPT !.st = how,
                        !.cpos = IF how = "committed"
                                 THEN Cardinality(CommittedOf(txOrg[t])) + 1 ELSE 0]]

\* db.commit(): the counter update and the customer row become durable
Commit(t) ==
    /\ txPc[t] = "flushed"
    /\ counter' = [counter EXCEPT ![txOrg[t]] = NextValue(txNum[t])]
    /\ customers' = [customers EXCEPT ![txOrg[t]] =
                         Append(@, CustomerRow(CustomerUid(txNum[t]), txOrg[t], txLoc[t]))]
    /\ allocs' = Ended(t, "committed")
    /\ TxReset(t)
    /\ UNCHANGED <<procVars, dbVars, clientVars>>

\* a rollback that leaves the counter update in place
AbortKeepsCounter(t) ==
    /\ txPc[t] \in {"begun", "inserted", "selected", "updated", "flushed"}
    /\ counter' = IF txPc[t] \in {"updated", "flushed"}
                  THEN [counter EXCEPT ![txOrg[t]] = NextValue(txNum[t])]
                  ELSE counter
    /\ allocs' = Ended(t, "aborted")
    /\ TxReset(t)
    /\ UNCHANGED <<procVars, dbVars, clientVars, customers>>

\* a rollback after which the row stays locked
AbortKeepsLock(t) ==
    /\ txPc[t] \in {"begun", "inserted", "selected", "updated", "flushed"}
    /\ allocs' = Ended(t, "aborted")
    /\ txPc' = [txPc EXCEPT ![t] = "idle"]
    /\ txAlloc' = [txAlloc EXCEPT ![t] = 0]
    /\ UNCHANGED <<procVars, dbVars, clientVars, counter, customers, txLoc, txOrg, txNum, txIns,
                   txLock>>

\* the request fails or is cancelled before db.commit(): get_db closes the
\* session, which rolls the transaction back
Abort(t) ==
    /\ txPc[t] \in {"begun", "inserted", "selected", "updated", "flushed"}
    /\ allocs' = Ended(t, "aborted")
    /\ TxReset(t)
    /\ UNCHANGED <<procVars, dbVars, clientVars, counter, customers>>

NextAlloc ==
    \E t \in Txns :
        \/ \E l \in LocIds : BeginCreate(t, l)
        \/ InsertCounter(t)
        \/ SelectNextNum(t)
        \/ UpdateCounter(t)
        \/ AddCustomer(t)
        \/ Commit(t)
        \/ Abort(t)

SpecAlloc == InitAlloc /\ [][NextAlloc]_vars

\* every statement a session can run is run in the end (the holder of a row
\* lock commits unless it is rolled back), and the store grants a row lock
\* to each waiter in turn
FairAlloc ==
    \A t \in Txns :
        /\ SF_vars(InsertCounter(t))
        /\ SF_vars(SelectNextNum(t))
        /\ WF_vars(UpdateCounter(t))
        /\ WF_vars(AddCustomer(t))
        /\ WF_vars(Commit(t))

SpecAllocFair == SpecAlloc /\ FairAlloc

(***************************************************************************)
(* The store's users and memberships, and the client's cookie.             *)
(***************************************************************************)
InitGate ==
    /\ users = [u \in {} |-> NormalUser]
    /\ userIdSeq = 0
    /\ locations = [l \in LocIds |-> OrgOfLoc(l)]
    /\ InitProc
    /\ memberships = {}
    /\ InitTxns
    /\ now = 0
    /\ cookie = NoToken
    /\ issued = NotIssued
    /\ resp = NoResponse

\* create_user(db, email, password, full_name, is_superadmin)
CreateUser(rec) ==
    /\ userIdSeq < NumUsers
    /\ userIdSeq' = userIdSeq + 1
    /\ users' = [u \in DOMAIN users \cup {userIdSeq + 1} |->
                    IF u = userIdSeq + 1 THEN rec ELSE users[u]]
    /\ resp' = NoResponse
    /\ UNCHANGED <<procVars, organizations, locations, memberships, allocVars, now, cookie, issued>>

\* a users row is deleted; user_locations.user_id is ON DELETE CASCADE
DeleteUser(u) ==
    /\ u \in DOMAIN users
    /\ users' = [v \in DOMAIN users \ {u} |-> users[v]]
    /\ memberships' = memberships \ MembershipsOf(u)
    /\ resp' = NoResponse
    /\ UNCHANGED <<procVars, organizations, userIdSeq, locations, allocVars, now, cookie, issued>>

\* a user_locations row is inserted; (user_id, location_id) is the primary key
AddMembership(u, l, role) ==
    /\ u \in DOMAIN users
    /\ l \in DOMAIN locations
    /\ ~HasMembership(u, l)
    /\ Cardinality(memberships) < MaxMemberships
    /\ memberships' = memberships \cup {[user_id |-> u, location_id |-> l, role |-> role]}
    /\ resp' = NoResponse
    /\ UNCHANGED <<procVars, organizations, users, userIdSeq, locations, allocVars, now, cookie, issued>>

\* a user_locations row is deleted
RemoveMembership(u, l) ==
    /\ HasMembership(u, l)
    /\ memberships' = {m \in memberships : ~(m.user_id = u /\ m.location_id = l)}
    /\ resp' = NoResponse
    /\ UNCHANGED <<procVars, organizations, users, userIdSeq, locations, allocVars, now, cookie, issued>>

\* the claims login embeds: those of user.locations[0], none without one
LoginClaims(u) ==
    IF MembershipsOf(u) = {} THEN {NoExtra}
    ELSE {[location_id |-> m.location_id, org_id |-> locations[m.location_id],
           role |-> m.role] : m \in {x \in MembershipsOf(u) : x.location_id \in DOMAIN locations}}

\* POST /auth/login with the email and password of user u
Login(u) ==
    /\ u \in DOMAIN users
    /\ users[u].is_active
    /\ \E extra \in LoginClaims(u) :
           cookie' = create_access_token(u, <<>>, extra, now)
    /\ issued' = [subject |-> u, ttl |-> <<>>, at |-> now]
    /\ resp' = NoResponse
    /\ UNCHANGED <<procVars, dbVars, allocVars, now>>

\* GET /logout deletes the cookie
Logout ==
    /\ cookie # NoToken
    /\ cookie' = NoToken
    /\ issued' = NotIssued
    /\ resp' = NoResponse
    /\ UNCHANGED <<procVars, dbVars, allocVars, now>>

\* GET /customers/?location_id=l: require_location_access(location_id, db, user_id)
AccessRequest(l) ==
    /\ resp' = Answer("access", LocationAccess(cookie, l, now), l, cookie, now)
    /\ UNCHANGED <<procVars, dbVars, allocVars, now, cookie, issued>>

\* GET /dashboard/summary?location_id=l
DashboardRequest(l) ==
    /\ resp' = Answer("dashboard_summary", dashboard_summary(cookie, l, now), l, cookie, now)
    /\ UNCHANGED <<procVars, dbVars, allocVars, now, cookie, issued>>

NextGate ==
    \/ \E rec \in {NormalUser, SuperAdmin} : CreateUser(rec)
    \/ \E u \in UserIds : DeleteUser(u)
    \/ \E u \in UserIds, l \in LocIds, role \in Roles : AddMembership(u, l, role)
    \/ \E u \in UserIds, l \in LocIds : RemoveMembership(u, l)
    \/ \E u \in UserIds : Login(u)
    \/ Logout
    \/ \E l \in LocIds : AccessRequest(l)

SpecGate == InitGate /\ [][NextGate]_vars

(***************************************************************************)
(* Token issuance and verification over time.  The store is fixed; the     *)
(* clock advances in minutes; the client holds what the server issued or   *)
(* what it made up itself.                                                 *)
(***************************************************************************)
InitToken ==
    /\ users = [u \in UserIds |-> NormalUser]
    /\ userIdSeq = NumUsers
    /\ locations = [l \in LocIds |-> OrgOfLoc(l)]
    /\ InitProc
    /\ memberships = {[user_id |-> 1, location_id |-> l, role |-> "owner"] : l \in LocIds}
    /\ InitTxns
    /\ now = 0
    /\ cookie = NoToken
    /\ issued = NotIssued
    /\ resp = NoResponse

\* the lifetimes a caller of create_access_token passes: None, or minutes
Ttls == {<<>>} \cup {<<m>> : m \in 0..MaxTtl}

\* create_access_token(subject=str(p), expires_minutes=ttl); the client keeps it
IssueToken(p, ttl) ==
    /\ now <= MaxIssueTime
    /\ cookie' = create_access_token(p, ttl, NoExtra, now)
    /\ issued' = [subject |-> p, ttl |-> ttl, at |-> now]
    /\ resp' = NoResponse
    /\ UNCHANGED <<procVars, dbVars, allocVars, now>>

\* datetime.now(timezone.utc) moves on
Tick ==
    /\ now < MaxTime
    /\ now' = now + 1
    /\ resp' = NoResponse
    /\ UNCHANGED <<procVars, dbVars, allocVars, cookie, issued>>

\* an algorithm the deployment is not configured with (JWT_ALGORITHM)
OtherAlgorithm == "HS512"

\* what a client can put in its cookie without the server's key: an
\* unparsable string, a token signed with a key of its own, the token it
\* holds with the claims or the header altered under the old signature, or
\* a token it kept from a deployment that signed with the same secret under
\* another algorithm, or a legacy session token it kept
Rewrites(p) ==
    {[p EXCEPT !.sub = Str(u)] : u \in UserIds}
        \cup {[p EXCEPT !.extra = OwnerClaims(l)] : l \in LocIds}
        \cup {[p EXCEPT !.exp = MaxTime + access_token_expire_minutes]}

ClientTokens(tk, t) ==
    {Garbage}
        \cup {JwtEncode([sub |-> Str(u), exp |-> t + access_token_expire_minutes,
                         iat |-> t, extra |-> OwnerClaims(l)],
                        AttackerKey, jwt_algorithm) : u \in UserIds, l \in LocIds}
        \cup {JwtEncode([sub |-> Str(1), exp |-> MaxTime + access_token_expire_minutes,
                         iat |-> 0, extra |-> NoExtra], secret_key, OtherAlgorithm)}
        \cup {create_session_token(1, 0)}
        \cup (IF tk.fmt = "jwt"
              THEN {[tk EXCEPT !.payload = p] : p \in Rewrites(tk.payload)}
                       \cup {[tk EXCEPT !.alg = "none"]}
              ELSE {})

ClientSetsCookie ==
    /\ \E tk \in ClientTokens(cookie, now) \ {cookie} : cookie' = tk
    /\ issued' = NotIssued
    /\ resp' = NoResponse
    /\ UNCHANGED <<procVars, dbVars, allocVars, now>>

\* a request to an endpoint that depends on get_current_user_id
ApiRequest ==
    /\ resp' = Answer("api", get_current_user_id(cookie, now), 0, cookie, now)
    /\ UNCHANGED <<procVars, dbVars, allocVars, now, cookie, issued>>

\* GET /auth/me
MeRequest ==
    /\ resp' = Answer("me", me(cookie, now), 0, cookie, now)
    /\ UNCHANGED <<procVars, dbVars, allocVars, now, cookie, issued>>

\* a request to a page that depends on require_web_user
WebRequest ==
    /\ resp' = Answer("web", require_web_user(cookie, now), 0, cookie, now)
    /\ UNCHANGED <<procVars, dbVars, allocVars, now, cookie, issued>>

NextToken ==
    \/ \E p \in UserIds, ttl \in Ttls : IssueToken(p, ttl)
    \/ Tick
    \/ ClientSetsCookie
    \/ Logout
    \/ ApiRequest
    \/ MeRequest
    \/ WebRequest
    \/ \E l \in LocIds : DashboardRequest(l)

SpecToken == InitToken /\ [][NextToken]_vars

\* the values SECRET_KEY can have when the process is started: unset, empty
\* or a secret
Environments == {<<>>, <<"">>, <<secret_key>>}

\* settings = Settings() at import and create_app(): the process serves
\* requests whatever SECRET_KEY holds
InitConfig ==
    /\ env_secret_key \in Environments
    /\ signup = NoSignup
    /\ organizations = Orgs
    /\ users = [u \in UserIds |-> NormalUser]
    /\ userIdSeq = NumUsers
    /\ locations = [l \in LocIds |-> OrgOfLoc(l)]
    /\ memberships = {[user_id |-> 1, location_id |-> l, role |-> "owner"] : l \in LocIds}
    /\ InitTxns
    /\ now = 0
    /\ cookie = NoToken
    /\ issued = NotIssued
    /\ resp = NoResponse

SpecConfig == InitConfig /\ [][NextToken]_vars

(***************************************************************************)
(* Customer data: the by-id and by-location operations of the customers    *)
(* router and the web customer pages.  A customer id is the position of    *)
(* the row in the table: row i of organization o has id (i-1)*NumOrgs + o. *)
(***************************************************************************)
CustomerId(o, i) == (i - 1) * NumOrgs + o

OrgOfCustomer(cid) == ((cid - 1) % NumOrgs) + 1

IndexOfCustomer(cid) == ((cid - 1) \div NumOrgs) + 1

CustomerIds == 1..(NumOrgs * MaxRows + 1)

\* db.get(Customer, customer_id) is not None
CustomerExists(cid) == IndexOfCustomer(cid) <= Len(customers[OrgOfCustomer(cid)])

GetCustomerRow(cid) == customers[OrgOfCustomer(cid)][IndexOfCustomer(cid)]

_not_found == Response(HTTP_404, "Customer not found", 0, 0)

\* a by-id preamble that returns the row without the access check
CustomerByIdUnchecked(tk, cid, t, hide_archived) ==
    LET a == get_current_user_id(tk, t) IN
    IF a.status # HTTP_200 THEN a
    ELSE IF ~CustomerExists(cid) THEN _not_found
    ELSE IF hide_archived /\ GetCustomerRow(cid).is_archived THEN _not_found
    ELSE Response(HTTP_200, "", a.user_id, GetCustomerRow(cid).location_id)

\* the preamble of get_customer, update_customer, list/add contacts and
\* addresses (hide_archived) and of archive_customer (not hide_archived):
\* db.get, the 404, then require_location_access(customer.location_id)
CustomerById(tk, cid, t, hide_archived) ==
    LET a == get_current_user_id(tk, t) IN
    IF a.status # HTTP_200 THEN a
    ELSE IF ~CustomerExists(cid) THEN _not_found
    ELSE IF hide_archived /\ GetCustomerRow(cid).is_archived THEN _not_found
    ELSE require_location_access(GetCustomerRow(cid).location_id, a.user_id)

\* the lowest location the user is a member of (order_by location_id asc)
FirstLocationOf(u) ==
    CHOOSE l \in {m.location_id : m \in MembershipsOf(u)} :
        \A m \in MembershipsOf(u) : l <= m.location_id

\* an active-location lookup that believes the cookie
require_web_active_location_id_TrustsCookie(tk, raw, t) ==
    LET a == require_web_user(tk, t) IN
    IF a.status # HTTP_200 THEN a
    ELSE IF raw # 0 THEN Response(HTTP_200, "", a.user_id, raw)
    ELSE IF MembershipsOf(a.user_id) = {} THEN Response(HTTP_302, "/dashboard", 0, 0)
    ELSE Response(HTTP_200, "", a.user_id, FirstLocationOf(a.user_id))

\* require_active_location_id(request, db, user): the same lookup behind
\* require_user, answering 403 where the user has no membership
require_active_location_id(tk, raw, t) ==
    LET a == require_user(tk, t) IN
    IF a.status # HTTP_200 THEN a
    ELSE IF raw # 0 /\ HasMembership(a.user_id, raw)
         THEN Response(HTTP_200, "", a.user_id, raw)
    ELSE IF MembershipsOf(a.user_id) = {}
         THEN _forbidden("No locations assigned to this user")
    ELSE Response(HTTP_200, "", a.user_id, FirstLocationOf(a.user_id))

\* require_web_active_location_id(request, db, user): raw is the value of
\* the active-location cookie (0: none)
require_web_active_location_id(tk, raw, t) ==
    LET a == require_web_user(tk, t) IN
    IF a.status # HTTP_200 THEN a
    ELSE IF raw # 0 /\ HasMembership(a.user_id, raw)
         THEN Response(HTTP_200, "", a.user_id, raw)
    ELSE IF MembershipsOf(a.user_id) = {} THEN Response(HTTP_302, "/dashboard", 0, 0)
    ELSE Response(HTTP_200, "", a.user_id, FirstLocationOf(a.user_id))

\* the response r to request op on customer cid
DataAnswer(op, r, cid, tk, t) == [Answer(op, r, 0, tk, t) EXCEPT !.target = cid]

\* the writes made to the customer tables since the initial state
RECURSIVE WritesIn(_)
WritesIn(S) ==
    IF S = {} THEN 0
    ELSE LET cid == CHOOSE x \in S : TRUE
             row == GetCustomerRow(cid)
         IN  row.notes + row.contacts + row.addresses
                 + (IF row.is_archived THEN 1 ELSE 0)
                 + (IF IndexOfCustomer(cid) > 1 THEN 1 ELSE 0)
                 + WritesIn(S \ {cid})

DataWrites == WritesIn({cid \in CustomerIds : CustomerExists(cid)})

\* the location of organization o the seeded customer belongs to
HomeLocation(o) == CHOOSE l \in LocIds : OrgOfLoc(l) = o /\ \A k \in LocIds : OrgOfLoc(k) = o => l <= k

InitData ==
    /\ users = [u \in UserIds |-> NormalUser]
    /\ userIdSeq = NumUsers
    /\ locations = [l \in LocIds |-> OrgOfLoc(l)]
    /\ InitProc
    /\ memberships = {[user_id |-> 1, location_id |-> HomeLocation(1), role |-> "owner"]}
    /\ txPc = [t \in Txns |-> "idle"]
    /\ txLoc = [t \in Txns |-> 0]
    /\ txOrg = [t \in Txns |-> 0]
    /\ txNum = [t \in Txns |-> 0]
    /\ txIns = [t \in Txns |-> FALSE]
    /\ txLock = [t \in Txns |-> FALSE]
    /\ txAlloc = [t \in Txns |-> 0]
    /\ allocs = [o \in Orgs |-> <<>>]
    /\ counter = [o \in Orgs |-> 2]
    /\ customers = [o \in Orgs |-> <<CustomerRow(CustomerUid(1), o, HomeLocation(o))>>]
    /\ now = 0
    /\ cookie = NoToken
    /\ issued = NotIssued
    /\ resp = NoResponse

SetRow(cid, row) ==
    [customers EXCEPT ![OrgOfCustomer(cid)][IndexOfCustomer(cid)] = row]

dataFrame == <<procVars, dbVars, counter, txPc, txLoc, txOrg, txNum, txIns, txLock, txAlloc, allocs,
               now, cookie, issued>>

\* GET /customers/{customer_id}, GET .../contacts, GET .../addresses
ReadCustomer(op, cid) ==
    /\ resp' = DataAnswer(op, CustomerById(cookie, cid, now, TRUE), cid, cookie, now)
    /\ UNCHANGED <<dataFrame, customers>>

\* PATCH /customers/{customer_id} with notes = n
\* an update that also rewrites the row's location_id, which CustomerUpdate
\* has no field for
UpdateCustomerMovesLocation(cid, n) ==
    LET r == CustomerById(cookie, cid, now, TRUE) IN
    /\ DataWrites < MaxWrites
    /\ resp' = DataAnswer("update_customer", r, cid, cookie, now)
    /\ customers' = IF r.status = HTTP_200
                    THEN SetRow(cid, [GetCustomerRow(cid) EXCEPT
                                          !.notes = n,
                                          !.location_id = (@ % NumLocs) + 1])
                    ELSE customers
    /\ UNCHANGED dataFrame

UpdateCustomer(cid, n) ==
    LET r == CustomerById(cookie, cid, now, TRUE) IN
    /\ DataWrites < MaxWrites
    /\ resp' = DataAnswer("update_customer", r, cid, cookie, now)
    /\ customers' = IF r.status = HTTP_200
                    THEN SetRow(cid, [GetCustomerRow(cid) EXCEPT !.notes = n])
                    ELSE customers
    /\ UNCHANGED dataFrame

\* POST /customers/{customer_id}/archive
ArchiveCustomer(cid) ==
    LET r == CustomerById(cookie, cid, now, FALSE) IN
    /\ DataWrites < MaxWrites
    /\ resp' = DataAnswer("archive_customer", r, cid, cookie, now)
    /\ customers' = IF r.status = HTTP_200
                    THEN SetRow(cid, [GetCustomerRow(cid) EXCEPT !.is_archived = TRUE])
                    ELSE customers
    /\ UNCHANGED dataFrame

\* POST /customers/{customer_id}/contacts
AddCustomerContact(cid) ==
    LET r == CustomerById(cookie, cid, now, TRUE) IN
    /\ DataWrites < MaxWrites
    /\ resp' = DataAnswer("add_customer_contact", r, cid, cookie, now)
    /\ customers' = IF r.status = HTTP_200
                    THEN SetRow(cid, [GetCustomerRow(cid) EXCEPT !.contacts = @ + 1])
                    ELSE customers
    /\ UNCHANGED dataFrame

\* POST /customers/{customer_id}/addresses
AddCustomerAddress(cid) ==
    LET r == CustomerById(cookie, cid, now, TRUE) IN
    /\ DataWrites < MaxWrites
    /\ resp' = DataAnswer("add_customer_address", r, cid, cookie, now)
    /\ customers' = IF r.status = HTTP_200
                    THEN SetRow(cid, [GetCustomerRow(cid) EXCEPT !.addresses = @ + 1])
                    ELSE customers
    /\ UNCHANGED dataFrame

\* a creation that commits the row without calling next_customer_uid
ApiCreateCustomerUnstamped(l) ==
    LET r == LocationAccess(cookie, l, now)
        o == locations[l]
    IN  /\ l \in DOMAIN locations
        /\ DataWrites < MaxWrites
        /\ Len(customers[o]) < MaxRows
        /\ \A t \in Txns : txPc[t] = "idle"
        /\ resp' = Answer("create_customer", r, l, cookie, now)
        /\ customers' = IF r.status = HTTP_200
                        THEN [customers EXCEPT ![o] = Append(@, CustomerRow(NoUid, o, l))]
                        ELSE customers
        /\ UNCHANGED <<procVars, dbVars, counter, txPc, txLoc, txOrg, txNum, txIns, txLock,
                       txAlloc, allocs, now, cookie, issued>>

\* POST /customers/ for location l, the whole transaction without a rival:
\* require_location_access, the Location lookup, next_customer_uid, commit
ApiCreateCustomer(l) ==
    LET r == LocationAccess(cookie, l, now)
        o == locations[l]
        n == IF counter[o] = 0 THEN 1 ELSE counter[o]
    IN  /\ l \in DOMAIN locations
        /\ DataWrites < MaxWrites
        /\ Len(customers[o]) < MaxRows
        /\ \A t \in Txns : txPc[t] = "idle"
        /\ resp' = Answer("create_customer", r, l, cookie, now)
        /\ IF r.status = HTTP_200
           THEN /\ customers' = [customers EXCEPT ![o] =
                                    Append(@, CustomerRow(CustomerUid(n), o, l))]
                /\ counter' = [counter EXCEPT ![o] = NextValue(n)]
           ELSE UNCHANGED <<customers, counter>>
        /\ UNCHANGED <<procVars, dbVars, txPc, txLoc, txOrg, txNum, txIns, txLock, txAlloc, allocs,
                       now, cookie, issued>>

\* GET /customers (web page), the active-location cookie holding raw
WebCustomersPage(raw) ==
    /\ resp' = Answer("customers_page", require_web_active_location_id(cookie, raw, now),
                      raw, cookie, now)
    /\ UNCHANGED <<dataFrame, customers>>

\* POST /customers (web form): the handler builds CustomerCreate, which has
\* no fields phone, email, address1, ..., and then reads payload.phone:
\* AttributeError, which nothing catches, before db.add is reached
WebCustomersCreate(raw) ==
    LET r == require_web_active_location_id(cookie, raw, now)
        l == r.location_id
    IN  /\ resp' = Answer("customers_create",
                          IF r.status # HTTP_200 THEN r
                          ELSE IF l \notin DOMAIN locations
                               THEN Response(HTTP_302, "/customers", r.user_id, l)
                          ELSE Response(HTTP_500, "Internal Server Error", 0, 0),
                          raw, cookie, now)
        /\ UNCHANGED <<dataFrame, customers>>

ReadOps == {"get_customer", "list_customer_contacts", "list_customer_addresses"}

NextData ==
    \/ \E u \in UserIds : Login(u)
    \/ Logout
    \/ \E u \in UserIds, l \in LocIds : RemoveMembership(u, l)
    \/ \E l \in LocIds : AccessRequest(l)
    \/ \E l \in LocIds : DashboardRequest(l)
    \/ \E op \in ReadOps, cid \in CustomerIds : ReadCustomer(op, cid)
    \/ \E cid \in CustomerIds, n \in {0, 1} : UpdateCustomer(cid, n)
    \/ \E cid \in CustomerIds : ArchiveCustomer(cid)
    \/ \E cid \in CustomerIds : AddCustomerContact(cid)
    \/ \E cid \in CustomerIds : AddCustomerAddress(cid)
    \/ \E l \in LocIds : ApiCreateCustomer(l)
    \/ \E raw \in {0} \cup LocIds : WebCustomersPage(raw)
    \/ \E raw \in {0} \cup LocIds : WebCustomersCreate(raw)

SpecData == InitData /\ [][NextData]_vars

(***************************************************************************)
(* The backfill of migration 20260210_cust_contacts, run against a store   *)
(* the application is using: per organization, insert-if-absent, a plain   *)
(* SELECT of next_num, the stamping of the customers without customer_uid, *)
(* and the UPDATE of the counter to the value derived from that read.      *)
(***************************************************************************)
\* a stamping without the filter on customer_uid IS NULL
StampAll(rows, n) ==
    [i \in 1..Len(rows) |-> [rows[i] EXCEPT !.customer_uid = CustomerUid(n + i - 1)]]

RECURSIVE StampFrom(_, _)
StampFrom(rows, n) ==
    IF rows = <<>> THEN <<>>
    ELSE IF Head(rows).customer_uid = NoUid
         THEN <<[Head(rows) EXCEPT !.customer_uid = CustomerUid(n)]>>
                  \o StampFrom(Tail(rows), n + 1)
    ELSE <<Head(rows)>> \o StampFrom(Tail(rows), n)

MissingUid(rows) == Cardinality({i \in 1..Len(rows) : rows[i].customer_uid = NoUid})

InitBackfill ==
    /\ users = [u \in {1} |-> NormalUser]
    /\ userIdSeq = 1
    /\ locations = [l \in LocIds |-> OrgOfLoc(l)]
    /\ InitProc
    /\ memberships = {[user_id |-> 1, location_id |-> l, role |-> "owner"] : l \in LocIds}
    /\ txPc = [t \in Txns |-> "idle"]
    /\ txLoc = [t \in Txns |-> 0]
    /\ txOrg = [t \in Txns |-> 0]
    /\ txNum = [t \in Txns |-> 0]
    /\ txIns = [t \in Txns |-> FALSE]
    /\ txLock = [t \in Txns |-> FALSE]
    /\ txAlloc = [t \in Txns |-> 0]
    /\ allocs = [o \in Orgs |-> <<>>]
    /\ counter = [o \in Orgs |-> 0]
    /\ customers = [o \in Orgs |-> IF o = 1 THEN <<CustomerRow(NoUid, o, HomeLocation(o))>>
                                   ELSE <<>>]
    /\ now = 0
    /\ cookie = create_access_token(1, <<>>, OwnerClaims(1), 0)
    /\ issued = [subject |-> 1, ttl |-> <<>>, at |-> 0]
    /\ resp = NoResponse

\* INSERT INTO customer_counters ... ON CONFLICT DO NOTHING for an
\* organization that has customers
BackfillInsert(t, o) ==
    /\ txPc[t] = "idle"
    /\ \A t2 \in Txns : txPc[t2] \notin {"bf_inserted", "bf_read", "bf_updated"}
    /\ customers[o] # <<>>
    /\ ~RowWriteInProgress(o, t)
    /\ txOrg' = [txOrg EXCEPT ![t] = o]
    /\ IF counter[o] = 0
       THEN /\ txIns' = [txIns EXCEPT ![t] = TRUE]
            /\ txLock' = [txLock EXCEPT ![t] = TRUE]
       ELSE UNCHANGED <<txIns, txLock>>
    /\ txPc' = [txPc EXCEPT ![t] = "bf_inserted"]
    /\ UNCHANGED <<procVars, dbVars, clientVars, counter, customers, txLoc, txNum, txAlloc, allocs>>

\* SELECT next_num FROM customer_counters WHERE organization_id = :org_id
BackfillSelect(t) ==
    /\ txPc[t] = "bf_inserted"
    /\ txNum' = [txNum EXCEPT ![t] = VisibleNum(txOrg[t], t)]
    /\ txPc' = [txPc EXCEPT ![t] = "bf_read"]
    /\ UNCHANGED <<procVars, dbVars, clientVars, counter, customers, txLoc, txOrg, txIns, txLock,
                   txAlloc, allocs>>

\* the UPDATEs of customers and UPDATE customer_counters SET next_num = :n
BackfillUpdate(t) ==
    /\ txPc[t] = "bf_read"
    /\ ~RowLocked(txOrg[t], t)
    /\ txLock' = [txLock EXCEPT ![t] = TRUE]
    /\ txPc' = [txPc EXCEPT ![t] = "bf_updated"]
    /\ UNCHANGED <<procVars, dbVars, clientVars, counter, customers, txLoc, txOrg, txNum, txIns,
                   txAlloc, allocs>>

\* the migration's transaction commits
BackfillCommit(t) ==
    /\ txPc[t] = "bf_updated"
    /\ customers' = [customers EXCEPT ![txOrg[t]] = StampFrom(@, txNum[t])]
    /\ counter' = [counter EXCEPT ![txOrg[t]] = txNum[t] + MissingUid(customers[txOrg[t]])]
    /\ TxReset(t)
    /\ UNCHANGED <<procVars, dbVars, clientVars, allocs>>

NextBackfill ==
    \/ NextAlloc
    \/ \E t \in Txns :
           \/ \E o \in Orgs : BackfillInsert(t, o)
           \/ BackfillSelect(t)
           \/ BackfillUpdate(t)
           \/ BackfillCommit(t)

SpecBackfill == InitBackfill /\ [][NextBackfill]_vars

(***************************************************************************)
(* The active location: memberships come and go while a logged-in client   *)
(* sends requests whose active-location cookie holds any value.            *)
(***************************************************************************)
InitActive ==
    /\ users = [u \in UserIds |-> NormalUser]
    /\ userIdSeq = NumUsers
    /\ locations = [l \in LocIds |-> OrgOfLoc(l)]
    /\ InitProc
    /\ memberships = {}
    /\ InitTxns
    /\ now = 0
    /\ cookie = NoToken
    /\ issued = NotIssued
    /\ resp = NoResponse

\* a request to an endpoint that depends on require_active_location_id
ActiveLocationRequest(raw) ==
    /\ resp' = Answer("active_location", require_active_location_id(cookie, raw, now),
                      raw, cookie, now)
    /\ UNCHANGED <<dataFrame, customers>>

NextActive ==
    \/ \E u \in UserIds, l \in LocIds : AddMembership(u, l, "owner")
    \/ \E u \in UserIds, l \in LocIds : RemoveMembership(u, l)
    \/ \E u \in UserIds : DeleteUser(u)
    \/ \E u \in UserIds : Login(u)
    \/ Logout
    \/ \E raw \in {0} \cup LocIds : ActiveLocationRequest(raw)
    \/ \E raw \in {0} \cup LocIds : WebCustomersPage(raw)

SpecActive == InitActive /\ [][NextActive]_vars

(***************************************************************************)
(* The two login paths, with users that are deactivated in the store.      *)
(***************************************************************************)
\* users.is_active of user u is set to false
DeactivateUser(u) ==
    /\ u \in DOMAIN users
    /\ users[u].is_active
    /\ users' = [users EXCEPT ![u].is_active = FALSE]
    /\ resp' = NoResponse
    /\ UNCHANGED <<procVars, organizations, userIdSeq, locations, memberships, allocVars,
                   now, cookie, issued>>

\* POST /login (web form) with the email and password of user u: the row is
\* looked up, the password verified, and create_access_token(user.id) set
\* as the cookie
WebLogin(u) ==
    /\ u \in DOMAIN users
    /\ cookie' = create_access_token(u, <<>>, NoExtra, now)
    /\ issued' = [subject |-> u, ttl |-> <<>>, at |-> now]
    /\ resp' = NoResponse
    /\ UNCHANGED <<procVars, dbVars, allocVars, now>>

NextLogin ==
    \/ \E u \in UserIds : DeactivateUser(u)
    \/ \E u \in UserIds : DeleteUser(u)
    \/ \E u \in UserIds : Login(u)
    \/ \E u \in UserIds : WebLogin(u)
    \/ Logout
    \/ Tick
    \/ ApiRequest
    \/ WebRequest

SpecLogin == InitToken /\ [][NextLogin]_vars

(***************************************************************************)
(* POST /auth/signup on an empty store: create_user commits the user, then *)
(* the organization, the first location and the owner membership are each  *)
(* added and committed; the request can fail between any two commits.      *)
(***************************************************************************)
InitSignup ==
    /\ env_secret_key = <<secret_key>>
    /\ signup = NoSignup
    /\ organizations = {}
    /\ users = [u \in {} |-> NormalUser]
    /\ userIdSeq = 0
    /\ locations = [l \in {} |-> 0]
    /\ memberships = {}
    /\ InitTxns
    /\ now = 0
    /\ cookie = NoToken
    /\ issued = NotIssued
    /\ resp = NoResponse

signupFrame == <<env_secret_key, allocVars, now>>

\* create_user(db, email, password, full_name): db.add(user); db.commit()
SignupCreateUser ==
    /\ signup.pc = "idle"
    /\ userIdSeq < NumUsers
    /\ Cardinality(organizations) < NumOrgs
    /\ Cardinality(DOMAIN locations) < NumLocs
    /\ userIdSeq' = userIdSeq + 1
    /\ users' = [u \in DOMAIN users \cup {userIdSeq + 1} |->
                    IF u = userIdSeq + 1 THEN NormalUser ELSE users[u]]
    /\ signup' = [NoSignup EXCEPT !.pc = "user", !.user = userIdSeq + 1]
    /\ resp' = NoResponse
    /\ UNCHANGED <<signupFrame, organizations, locations, memberships, cookie, issued>>

\* org = Organization(name=...); db.add(org); db.commit()
SignupCreateOrganization ==
    /\ signup.pc = "user"
    /\ organizations' = organizations \cup {Cardinality(organizations) + 1}
    /\ signup' = [signup EXCEPT !.pc = "org", !.org = Cardinality(organizations) + 1]
    /\ resp' = NoResponse
    /\ UNCHANGED <<signupFrame, users, userIdSeq, locations, memberships, cookie, issued>>

\* loc = Location(organization_id=org.id, ...); db.add(loc); db.commit()
SignupCreateLocation ==
    LET l == Cardinality(DOMAIN locations) + 1 IN
    /\ signup.pc = "org"
    /\ locations' = [k \in DOMAIN locations \cup {l} |->
                        IF k = l THEN signup.org ELSE locations[k]]
    /\ signup' = [signup EXCEPT !.pc = "loc", !.loc = l]
    /\ resp' = NoResponse
    /\ UNCHANGED <<signupFrame, organizations, users, userIdSeq, memberships, cookie, issued>>

\* membership = UserLocation(user_id, location_id, role="owner"); db.commit();
\* the token is issued and set as the cookie
SignupCreateMembership ==
    /\ signup.pc = "loc"
    /\ memberships' = memberships \cup
           {[user_id |-> signup.user, location_id |-> signup.loc, role |-> "owner"]}
    /\ cookie' = create_access_token(signup.user, <<>>,
                      [location_id |-> signup.loc, org_id |-> signup.org, role |-> "owner"],
                      now)
    /\ issued' = [subject |-> signup.user, ttl |-> <<>>, at |-> now]
    /\ signup' = NoSignup
    /\ resp' = NoResponse
    /\ UNCHANGED <<signupFrame, organizations, users, userIdSeq, locations>>

\* the request fails after a commit and before the next one: get_db closes
\* the session, what was committed stays
SignupFails ==
    /\ signup.pc \in {"user", "org", "loc"}
    /\ signup' = NoSignup
    /\ resp' = NoResponse
    /\ UNCHANGED <<signupFrame, dbVars, cookie, issued>>

NextSignup ==
    \/ SignupCreateUser
    \/ SignupCreateOrganization
    \/ SignupCreateLocation
    \/ SignupCreateMembership
    \/ SignupFails
    \/ \E u \in UserIds : Login(u)
    \/ Logout
    \/ \E l \in LocIds : AccessRequest(l)

SpecSignup == InitSignup /\ [][NextSignup]_vars

\* the store the migration is written for: customers that predate
\* customer_uid, and no counter row
InitMigration ==
    /\ users = [u \in {1} |-> NormalUser]
    /\ userIdSeq = 1
    /\ locations = [l \in LocIds |-> OrgOfLoc(l)]
    /\ InitProc
    /\ memberships = {[user_id |-> 1, location_id |-> l, role |-> "owner"] : l \in LocIds}
    /\ txPc = [t \in Txns |-> "idle"]
    /\ txLoc = [t \in Txns |-> 0]
    /\ txOrg = [t \in Txns |-> 0]
    /\ txNum = [t \in Txns |-> 0]
    /\ txIns = [t \in Txns |-> FALSE]
    /\ txLock = [t \in Txns |-> FALSE]
    /\ txAlloc = [t \in Txns |-> 0]
    /\ allocs = [o \in Orgs |-> <<>>]
    /\ counter = [o \in Orgs |-> 0]
    /\ customers = [o \in Orgs |->
                        [i \in 1..(IF o = 1 THEN MaxRows ELSE 1) |->
                            CustomerRow(NoUid, o, HomeLocation(o))]]
    /\ now = 0
    /\ cookie = create_access_token(1, <<>>, OwnerClaims(1), 0)
    /\ issued = [subject |-> 1, ttl |-> <<>>, at |-> 0]
    /\ resp = NoResponse

\* the backfill as a batch job: run, and run again, between requests that
\* create customers through the API
NextMigration ==
    \/ \E t \in Txns :
           \/ \E o \in Orgs : BackfillInsert(t, o)
           \/ BackfillSelect(t)
           \/ BackfillUpdate(t)
           \/ BackfillCommit(t)
    \/ \E l \in LocIds : ApiCreateCustomer(l)

SpecMigration == InitMigration /\ [][NextMigration]_vars

(***************************************************************************)
(* The allocator's contract.                                               *)
(***************************************************************************)
\* the number the next allocation of organization o reads
NextNumOf(o) == IF counter[o] = 0 THEN 1 ELSE counter[o]

\* C1: within one organization, allocations that are not rolled back never
\* share an identifier, and their numbers are strictly increasing in the
\* order in which they were assigned
C1_UniqueIncreasing ==
    \A o \in Orgs : \A i, j \in AllocsOf(o) :
        (/\ i < j
         /\ allocs[o][i].st # "aborted"
         /\ allocs[o][j].st # "aborted")
        => /\ allocs[o][i].uid # allocs[o][j].uid
           /\ allocs[o][i].num < allocs[o][j].num

C1_Witness ==
    \E o \in Orgs : \E i, j \in AllocsOf(o) :
        /\ i < j
        /\ allocs[o][i].st = "committed"
        /\ allocs[o][j].st = "open"
        /\ \E t \in Txns : txOrg[t] = o /\ txPc[t] = "inserted" /\ RowLocked(o, t)

\* C2: while no allocation of an organization has been rolled back, the N
\* committed allocations hold exactly the numbers 1..N (the counter started
\* at 1): no duplicates, no gaps, and the counter holds N + 1
C2_GaplessWhenUninterrupted ==
    \A o \in Orgs :
        AbortedOf(o) = {}
        => /\ {allocs[o][i].num : i \in CommittedOf(o)} = 1..Cardinality(CommittedOf(o))
           /\ Cardinality({allocs[o][i].uid : i \in CommittedOf(o)})
                  = Cardinality(CommittedOf(o))
           /\ CommittedOf(o) # {} => counter[o] = Cardinality(CommittedOf(o)) + 1

C2_Witness ==
    \E o \in Orgs :
        /\ AbortedOf(o) = {}
        /\ Cardinality(CommittedOf(o)) = 2
        /\ \E t \in Txns : txOrg[t] = o /\ txPc[t] = "flushed" /\ txNum[t] = 3
        /\ \E t \in Txns : txOrg[t] = o /\ txPc[t] = "inserted" /\ RowLocked(o, t)

\* C3: within one organization the numbers follow the commit order (an
\* allocation that commits earlier has the smaller number); on an
\* organization without customers the first three commits carry CUS-000001,
\* CUS-000002, CUS-000003 in commit order, and an allocation made after
\* three commits returns CUS-000004
C3_CommitOrder ==
    \A o \in Orgs :
        /\ \A i, j \in CommittedOf(o) :
               allocs[o][i].cpos < allocs[o][j].cpos => allocs[o][i].num < allocs[o][j].num
        /\ \A i \in CommittedOf(o) :
               allocs[o][i].cpos <= 3
               => allocs[o][i].uid
                      = [prefix |-> "CUS", digits |-> <<0, 0, 0, 0, 0, allocs[o][i].cpos>>]
        /\ \A i \in AllocsOf(o) :
               (allocs[o][i].st = "open" /\ Cardinality(CommittedOf(o)) = 3)
               => allocs[o][i].uid = [prefix |-> "CUS", digits |-> <<0, 0, 0, 0, 0, 4>>]

C3_Witness ==
    \E o \in Orgs :
        /\ Cardinality(CommittedOf(o)) = 3
        /\ AbortedOf(o) = {}
        /\ \E i \in AllocsOf(o) : allocs[o][i].st = "open" /\ allocs[o][i].num = 4

Checked == resp.op = "access" /\ resp.fault = "" /\ resp.who # 0

Denied == Observable(resp) = <<HTTP_403, "No access to this location">>

\* C5: for an existing user that is not superadmin the check allows exactly
\* when the membership row (user, location) exists at the time of the check
\* and otherwise denies with 403; role, other memberships, token claims and
\* organization do not matter
C5_AllowIffMembership ==
    (/\ Checked
     /\ resp.who \in DOMAIN users
     /\ ~users[resp.who].is_superadmin)
    => IF HasMembership(resp.who, resp.asked)
       THEN /\ resp.status = HTTP_200
            /\ resp.user_id = resp.who
            /\ resp.location_id = resp.asked
       ELSE Denied

C5_Witness ==
    /\ Checked
    /\ resp.who \in DOMAIN users
    /\ ~users[resp.who].is_superadmin
    /\ Denied
    /\ MembershipsOf(resp.who) # {}
    /\ \E m \in memberships : m.user_id # resp.who /\ m.location_id = resp.asked

\* C6 as stated: a superadmin without membership rows is allowed for every
\* location
C6_SuperadminAllowed ==
    (/\ Checked
     /\ resp.who \in DOMAIN users
     /\ users[resp.who].is_superadmin
     /\ MembershipsOf(resp.who) = {})
    => resp.status = HTTP_200 /\ resp.location_id = resp.asked

\* C7 as stated: a token that verifies but whose user does not exist is
\* denied with 401 and never with 403
C7_MissingUserUnauthenticated ==
    (Checked /\ resp.who \notin DOMAIN users)
    => resp.status = HTTP_401

\* C8: once the membership row (u, L) is gone, a check of u on L denies even
\* though the token u presents still verifies and embeds L as its location
\* claim (login embeds only locations the user is a member of, so such a
\* token was issued before the removal)
C8_StaleClaimDenied ==
    (/\ Checked
     /\ cookie.payload.extra.location_id = resp.asked
     /\ ~HasMembership(resp.who, resp.asked))
    => Denied

C8_Witness ==
    /\ Checked
    /\ resp.who \in DOMAIN users
    /\ issued.subject = resp.who
    /\ cookie.payload.extra.location_id = resp.asked
    /\ ~HasMembership(resp.who, resp.asked)
    /\ MembershipsOf(resp.who) # {}
    /\ Denied

(***************************************************************************)
(* The token verifier's contract.                                          *)
(***************************************************************************)
\* C9 as stated: the token issued for (p, ttl) verifies to p at every time
\* before issuance time plus ttl, and is refused with 401 at every time at
\* or after it
C9_VerifiesUntilTtl ==
    (/\ resp.op = "api"
     /\ issued.subject # 0
     /\ issued.ttl # <<>>
     /\ issued.ttl[1] > 0)
    => IF now < issued.at + issued.ttl[1]
       THEN resp.status = HTTP_200 /\ resp.user_id = issued.subject
       ELSE resp.status = HTTP_401

\* the response of request op when no token is presented
AbsentResponse(op) ==
    IF op = "api" THEN get_current_user_id(NoToken, now)
    ELSE IF op = "me" THEN me(NoToken, now)
    ELSE require_web_user(NoToken, now)

VerificationFaults == {"absent", "signature", "malformed", "expired"}

\* C10 as stated: an absent token, a bad signature, a malformed token and an
\* expired token produce the same observable failure
C10_SameObservableFailure ==
    (resp.op \in {"api", "me", "web"} /\ resp.fault \in VerificationFaults)
    => Observable(resp) = Observable(AbsentResponse(resp.op))

\* C11: a principal id comes out of verification only for a token whose
\* signature was made with the verifier's secret over exactly the token's
\* header and claims; a token signed with another secret, or an issued token
\* with its claims, header or signature altered, is answered 401
C11_OnlyOwnSignatureVerifies ==
    (/\ resp.op \in {"api", "me", "web"}
     /\ cookie.fmt = "jwt"
     /\ cookie.sig # Sign(secret_key, cookie.alg, cookie.payload))
    => /\ resp.user_id = 0
       /\ resp.status # HTTP_200
       /\ resp.op = "api" => resp.status = HTTP_401

C11_Witness ==
    /\ resp.op = "api"
    /\ cookie.fmt = "jwt"
    /\ cookie.sig.key = secret_key
    /\ cookie.sig.payload # cookie.payload
    /\ cookie.payload.exp >= now
    /\ resp.status = HTTP_401

(***************************************************************************)
(* The data operations' contract.                                          *)
(***************************************************************************)
ByIdOps == ReadOps \cup {"update_customer", "archive_customer", "add_customer_contact",
                         "add_customer_address"}

DataOps == ByIdOps \cup {"access", "create_customer", "customers_page", "customers_create",
                         "dashboard_summary"}

\* row cid is new or not what it was
RowTouched(cid) ==
    /\ IndexOfCustomer(cid) <= Len(customers'[OrgOfCustomer(cid)])
    /\ \/ ~CustomerExists(cid)
       \/ customers'[OrgOfCustomer(cid)][IndexOfCustomer(cid)] # GetCustomerRow(cid)

\* C12: every customer operation (by location or by id, API or web page)
\* answers with data of a location, or changes a row of a location, only
\* when the access check allows the requester on that location, and a by-id
\* operation decides on the location that owns the row
C12_DataOnlyAfterAccessCheck ==
    [][/\ (resp'.op \in DataOps /\ resp'.location_id # 0)
            => /\ resp'.user_id # 0
               /\ require_location_access(resp'.location_id, resp'.user_id).status = HTTP_200
       /\ (resp'.op \in ByIdOps /\ resp'.location_id # 0)
            => /\ CustomerExists(resp'.target)
               /\ GetCustomerRow(resp'.target).location_id = resp'.location_id
       /\ \A cid \in CustomerIds :
              RowTouched(cid)
              => /\ resp'.op \in DataOps
                 /\ resp'.location_id
                        = customers'[OrgOfCustomer(cid)][IndexOfCustomer(cid)].location_id
                 /\ HasMembership(resp'.user_id, resp'.location_id)]_vars

C12_Witness ==
    /\ resp.op \in ByIdOps
    /\ resp.who # 0
    /\ CustomerExists(resp.target)
    /\ ~HasMembership(resp.who, GetCustomerRow(resp.target).location_id)
    /\ Denied
    /\ \E cid \in CustomerIds :
           /\ CustomerExists(cid)
           /\ HasMembership(resp.who, GetCustomerRow(cid).location_id)
           /\ GetCustomerRow(cid).notes = 1

\* C13 as stated: a caller with a valid token and no access to the location
\* of an existing customer gets, from a by-id operation, the response it
\* would get for an id that does not exist
C13_NoExistenceLeak ==
    (/\ resp.op \in ByIdOps
     /\ resp.fault = ""
     /\ resp.who # 0
     /\ CustomerExists(resp.target)
     /\ ~HasMembership(resp.who, GetCustomerRow(resp.target).location_id))
    => Observable(resp) = Observable(_not_found)

C15_FirstAllocation ==
    \A o \in Orgs :
        /\ Cardinality({t \in Txns : txOrg[t] = o /\ txIns[t]})
               + (IF counter[o] > 0 THEN 1 ELSE 0) <= 1
        /\ \A t \in Txns :
               (txOrg[t] = o /\ txPc[t] \in {"selected", "updated", "flushed"})
               => txNum[t] >= 1
        /\ Len(allocs[o]) >= 1 => allocs[o][1].num = 1
        /\ \A t \in Txns : (txOrg[t] = o /\ txIns[t] /\ txAlloc[t] # 0) => txNum[t] = 1
        /\ \A i \in CommittedOf(o) : allocs[o][i].cpos = 1 => allocs[o][i].num = 1
        /\ \A i, j \in AllocsOf(o) :
               (i # j /\ allocs[o][i].st # "aborted" /\ allocs[o][j].st # "aborted")
               => allocs[o][i].num # allocs[o][j].num

C15_Witness ==
    \E o \in Orgs : \E t1, t2 \in Txns :
        /\ t1 # t2
        /\ counter[o] = 0
        /\ txOrg[t1] = o /\ txIns[t1] /\ txPc[t1] = "updated" /\ txNum[t1] = 1
        /\ txOrg[t2] = o /\ txPc[t2] = "begun"

\* no other open transaction works on the organization of t
AloneInOrg(t) == \A t2 \in Txns \ {t} : txPc[t2] = "idle" \/ txOrg[t2] # txOrg[t]

\* C16: a transaction is never kept waiting by transactions of other
\* organizations: whatever locks they hold, each statement of an allocation
\* whose organization has no other open transaction can run, up to commit
C16_OtherOrganizationsNeverBlock ==
    \A t \in Txns :
        AloneInOrg(t)
        => /\ txPc[t] = "begun" => ENABLED InsertCounter(t)
           /\ txPc[t] = "inserted" => ENABLED SelectNextNum(t)
           /\ txPc[t] = "selected" => ENABLED UpdateCounter(t)
           /\ txPc[t] = "updated" => ENABLED AddCustomer(t)
           /\ txPc[t] = "flushed" => ENABLED Commit(t)

C16_Witness ==
    \E t1, t2 \in Txns :
        /\ txPc[t1] = "updated" /\ txLock[t1]
        /\ txPc[t2] = "flushed" /\ txLock[t2]
        /\ txOrg[t1] # txOrg[t2]
        /\ allocs[txOrg[t1]][txAlloc[t1]].st = "open"
        /\ CommittedOf(txOrg[t2]) # {}
        /\ CommittedOf(txOrg[t1]) = {}

\* the sessions that have read an organization's counter and have not ended
ReadersOf(o) ==
    {t \in Txns : txOrg[t] = o
                  /\ txPc[t] \in {"selected", "updated", "flushed", "bf_read", "bf_updated"}}

\* C17 as stated: whoever has read a counter row to write back a value
\* derived from it holds the row's lock from the read until its transaction
\* ends, so no two sessions are between read and write on one row
C17_ReadModifyWriteUnderLock ==
    \A o \in Orgs :
        /\ \A t \in ReadersOf(o) : txLock[t]
        /\ Cardinality(ReadersOf(o)) <= 1

\* C18: the committed counter of an organization that has a row is at least
\* 1 (an organization with a committed allocation has a row), and no step,
\* whether statement, commit or rollback, makes a committed counter smaller
C18_CounterNeverDecreases ==
    /\ [](\A o \in Orgs : CommittedOf(o) # {} => counter[o] >= 1)
    /\ [][\A o \in Orgs : counter'[o] >= counter[o]]_vars

C18_Witness ==
    \E o \in Orgs :
        /\ counter[o] = 3
        /\ AbortedOf(o) # {}
        /\ \E t \in Txns : txOrg[t] = o /\ txPc[t] = "updated"

\* session t waits for the row of its organization
Waiting(t) ==
    \/ txPc[t] = "begun" /\ RowWriteInProgress(txOrg[t], t)
    \/ txPc[t] = "inserted" /\ RowLocked(txOrg[t], t)

\* C19: provided lock holders end, a session waiting for its organization's
\* row gets the lock (or is itself rolled back); a rollback leaves the
\* session without any lock; and while a session is open some session can
\* take a step other than a rollback (no deadlock)
C19_WaitersGetTheLock ==
    /\ \A t \in Txns : Waiting(t) ~> (txLock[t] \/ txPc[t] = "idle")
    /\ [][\A t \in Txns : (txPc[t] # "idle" /\ txPc'[t] = "idle") => ~txLock'[t]]_vars
    /\ [](\A t \in Txns : txPc[t] = "idle" => ~txLock[t])
    /\ []((\E t \in Txns : txPc[t] # "idle")
            => \E t \in Txns : ENABLED (\/ InsertCounter(t) \/ SelectNextNum(t)
                                        \/ UpdateCounter(t) \/ AddCustomer(t) \/ Commit(t)))

C19_Witness ==
    \E o \in Orgs : \E t1, t2 \in Txns :
        /\ txOrg[t1] = o /\ txPc[t1] = "selected" /\ txLock[t1]
        /\ AbortedOf(o) # {}
        /\ allocs[o][txAlloc[t1]].num = allocs[o][CHOOSE i \in AbortedOf(o) : TRUE].num
        /\ txOrg[t2] = o /\ Waiting(t2)

\* C20: a request whose allocation fails while it waits for the row of its
\* organization (a lock-wait timeout) is not ended with that failure at the
\* first attempt: its session stays open to run the allocation again
C20_ConflictIsRetried ==
    [][\A t \in Txns : Waiting(t) => txPc'[t] # "idle"]_vars

(***************************************************************************)
(* Token formats, configuration and lifetimes.                             *)
(***************************************************************************)
\* C21: a token whose header declares an algorithm other than the configured
\* one never yields a principal, even when its signature is the right one
\* for the declared algorithm under the server's secret
C21_OnlyConfiguredAlgorithm ==
    (/\ resp.op \in {"api", "me", "web", "dashboard_summary"}
     /\ cookie.fmt = "jwt"
     /\ cookie.alg # jwt_algorithm)
    => /\ resp.user_id = 0
       /\ resp.status # HTTP_200
       /\ resp.op \in {"api", "dashboard_summary"} => resp.status = HTTP_401

C21_Witness ==
    /\ resp.op = "api"
    /\ cookie.fmt = "jwt"
    /\ cookie.alg = OtherAlgorithm
    /\ cookie.sig = Sign(secret_key, cookie.alg, cookie.payload)
    /\ cookie.payload.exp >= now
    /\ resp.status = HTTP_401

\* C22: the verifier answers with the principal of the structured token when
\* that verifies, otherwise with the principal of the legacy session token
\* when that verifies, and with 401 only when neither format validates
C22_FormatsTriedInOrder ==
    resp.op = "api" =>
        LET j == decode_token_get_user_id(cookie, now)
            s == verify_session_token(cookie, now)
        IN  IF cookie.fmt # "none" /\ j.status = HTTP_200
                THEN resp.status = HTTP_200 /\ resp.user_id = j.user_id
            ELSE IF s.ok /\ IsDigits(s.payload.sub)
                THEN resp.status = HTTP_200 /\ resp.user_id = DigitsValue(s.payload.sub)
            ELSE resp.status = HTTP_401 /\ resp.user_id = 0

\* C23: while SECRET_KEY is unset or empty the process does not serve: no
\* request is answered (so the missing secret is never reported per
\* request), no token is issued and no token is accepted
C23_NoServiceWithoutSecret ==
    env_secret_key \in {<<>>, <<"">>} =>
        /\ resp = NoResponse
        /\ issued = NotIssued

(***************************************************************************)
(* The backfill as a batch job.                                            *)
(***************************************************************************)
\* the rows of organization o without an identifier
Lacking(o) == {i \in 1..Len(customers[o]) : customers[o][i].customer_uid = NoUid}

\* the number the backfill starts from: the counter, 1 where it has no row
StartOf(o) == IF counter[o] = 0 THEN 1 ELSE counter[o]

\* C24: a run of the backfill on organization o gives the rows without an
\* identifier the numbers counter, counter + 1, ... in ascending primary-key
\* order, leaves every row that has an identifier as it is, and sets the
\* counter to the last number given plus one; a run that finds no row
\* without an identifier changes neither a row nor the counter; identifiers
\* stay distinct within an organization
C24_BackfillSequentialIdempotent ==
    /\ [][\A t \in Txns :
            (txPc[t] = "bf_updated" /\ txPc'[t] = "idle") =>
                LET o == txOrg[t] IN
                /\ Len(customers'[o]) = Len(customers[o])
                /\ \A i \in 1..Len(customers[o]) :
                       customers'[o][i] =
                           IF i \in Lacking(o)
                           THEN [customers[o][i] EXCEPT !.customer_uid =
                                    CustomerUid(StartOf(o)
                                        + Cardinality({j \in Lacking(o) : j < i}))]
                           ELSE customers[o][i]
                /\ counter'[o] = StartOf(o) + Cardinality(Lacking(o))
                /\ Lacking(o) = {} => counter'[o] = counter[o]
                /\ \A o2 \in Orgs \ {o} :
                       customers'[o2] = customers[o2] /\ counter'[o2] = counter[o2]]_vars
    /\ [](\A o \in Orgs : \A i, j \in 1..Len(customers[o]) :
              (i # j /\ customers[o][i].customer_uid # NoUid)
                  => customers[o][i].customer_uid # customers[o][j].customer_uid)

C24_Witness ==
    \E t \in Txns :
        /\ txPc[t] = "bf_updated"
        /\ txOrg[t] = 1
        /\ Len(customers[1]) >= 2
        /\ customers[1][1].customer_uid = CustomerUid(1)
        /\ customers[1][2].customer_uid = CustomerUid(2)
        /\ counter[1] = 3

\* C25: the token issued with an explicit ttl expires at issuance time plus
\* that ttl, whatever the ttl; the configured default lifetime applies only
\* when no ttl was passed
C25_ExpiryIsIssuancePlusTtl ==
    (issued.subject # 0 /\ cookie.fmt = "jwt") =>
        cookie.payload.exp =
            issued.at + (IF issued.ttl = <<>> THEN access_token_expire_minutes
                         ELSE issued.ttl[1])

(***************************************************************************)
(* The active location, logins and signup.                                 *)
(***************************************************************************)
\* C26: the active location handed to a handler is a location the
\* authenticated user has a membership row for at that moment: the cookie's
\* location when the user is a member of it, else the user's lowest-id
\* membership location, and none for a user without memberships
C26_ActiveLocationIsMembership ==
    (resp.op \in {"active_location", "customers_page"} /\ resp.who \in DOMAIN users) =>
        /\ resp.status = HTTP_200 <=> MembershipsOf(resp.who) # {}
        /\ MembershipsOf(resp.who) = {} => resp.location_id = 0
        /\ MembershipsOf(resp.who) # {} =>
               /\ resp.user_id = resp.who
               /\ HasMembership(resp.who, resp.location_id)
               /\ HasMembership(resp.who, resp.asked) => resp.location_id = resp.asked
               /\ ~HasMembership(resp.who, resp.asked) =>
                      \A m \in MembershipsOf(resp.who) : resp.location_id <= m.location_id

C26_Witness ==
    /\ resp.op = "customers_page"
    /\ resp.who \in DOMAIN users
    /\ resp.asked # 0
    /\ ~HasMembership(resp.who, resp.asked)
    /\ resp.status = HTTP_200
    /\ HasMembership(resp.who, resp.location_id)

\* C27: a token is issued only for a user that exists and is active
C27_NoTokenForInactiveUser ==
    [][(issued' # issued /\ issued'.subject # 0) =>
           /\ issued'.subject \in DOMAIN users
           /\ users[issued'.subject].is_active]_vars

\* C28: whenever no signup is in progress (after a signup that completed and
\* after one that failed at any step), every user has an owner membership
\* on an existing location of an existing organization, every organization
\* has a location and every location has an owner
C28_SignupAllOrNothing ==
    signup.pc = "idle" =>
        /\ \A u \in DOMAIN users :
               \E m \in MembershipsOf(u) :
                   /\ m.role = "owner"
                   /\ m.location_id \in DOMAIN locations
                   /\ locations[m.location_id] \in organizations
        /\ \A o \in organizations : \E l \in DOMAIN locations : locations[l] = o
        /\ \A l \in DOMAIN locations :
               \E m \in memberships : m.location_id = l /\ m.user_id \in DOMAIN users

(***************************************************************************)
(* The customers table against the counters and the locations.             *)
(***************************************************************************)
\* the identifiers held by the committed customers of organization o
UidsOf(o) == {customers[o][i].customer_uid : i \in 1..Len(customers[o])}

\* C29: in every committed state reached through create_customer calls that
\* commit or roll back, an organization without counter row has no customer,
\* and one with counter value n has exactly n - 1 customers holding exactly
\* the identifiers of the numbers 1..n-1, one each
C29_CounterMatchesCustomers ==
    \A o \in Orgs :
        /\ counter[o] = 0 => customers[o] = <<>>
        /\ counter[o] # 0 =>
               /\ Len(customers[o]) = counter[o] - 1
               /\ UidsOf(o) = {CustomerUid(k) : k \in 1..(counter[o] - 1)}
               /\ Cardinality(UidsOf(o)) = Len(customers[o])

C29_Witness ==
    \E o \in Orgs :
        /\ counter[o] = 3
        /\ Len(customers[o]) = 2
        /\ AbortedOf(o) # {}
        /\ \E t \in Txns : txOrg[t] = o /\ txPc[t] = "flushed"

\* C30: each customer's organization_id is the organization_id of the
\* location named by its location_id: creation takes the organization from
\* the location, and no update changes location_id or organization_id
C30_OrganizationFollowsLocation ==
    /\ \A cid \in CustomerIds :
           CustomerExists(cid)
           => /\ GetCustomerRow(cid).location_id \in DOMAIN locations
              /\ GetCustomerRow(cid).organization_id
                     = locations[GetCustomerRow(cid).location_id]
    /\ \A o \in Orgs : \A i \in 1..Len(customers[o]) :
           customers[o][i].organization_id = o

C30_Witness ==
    /\ resp.op = "update_customer"
    /\ resp.status = HTTP_200
    /\ CustomerExists(resp.target)
    /\ IndexOfCustomer(resp.target) = 2
    /\ GetCustomerRow(resp.target).notes = 1
    /\ GetCustomerRow(resp.target).organization_id
           = locations[GetCustomerRow(resp.target).location_id]

====
